---- MODULE Spec2Model ----
(***************************************************************************)
(* Model of the LinuxDo-App network core:                                  *)
(*   - the WebView bridge store (store/webViewAPIStore.ts) together with   *)
(*     the provider component that feeds it (WebViewAPIProvider.tsx);      *)
(*   - the Discourse API client (lib/api/index.ts): _exec, the axios       *)
(*     request/response interceptors and the CSRF bookkeeping;             *)
(*   - the Cloudflare challenge store (store/cloudflareStore.ts) and the   *)
(*     modal that drives it (CloudflareChallengeModal.tsx).                *)
(* JavaScript runs handlers to completion, so one action is one handler    *)
(* with every call it makes and every promise continuation it releases.    *)
(***************************************************************************)
EXTENDS Integers, Sequences, FiniteSets, TLC

(* ------------------------------ bounds -------------------------------- *)
\* bridge requests ever created (requestIdCounter stays below this)
MaxReq == 2
\* setTimeout callbacks of setReady that may be pending at once
MaxTimers == 1
\* challenge answers the server gives to bridge fetches over a run
MaxChallenges == 2
\* times the axios interceptor (outside _exec) shows the verification WebView
MaxAxiosChallenges == 1
\* times the provider (and its WebView) is unmounted over a run
MaxUnmounts == 1
\* _exec calls made over a run
MaxCalls == 2
\* direct get_session_csrf() calls (createBookmark, client-store init, ...)
MaxDirectCsrf == 1
\* the clock: milliseconds per Tick, and the last instant explored
TickMs == 600
MaxNow == 3000
\* Date.now() when the client is constructed
StartTime == 1500
\* showChallenge calls over a run, and pending timers of the challenge modal
MaxShows == 3
MaxModalTimers == 2
\* cookie boxes (accounts), client instances and authStore calls
MaxBoxes == 3
MaxClients == 2
MaxAuthOps == 2
\* cookies in a serialized jar handed to a client
MaxJarCookies == 2
\* messages handled that answer no current request
MaxStrayMessages == 1
\* calls of the activity history store
MaxHistoryOps == 3
\* calls of set of a cache store, and its clock
MaxCacheSets == 3
CacheTickMs == 300000
MaxCacheNow == 900000

NoRequest == 0
ReqIds == 1..MaxReq

VARIABLES
    \* ---- webViewAPIStore state
    isVisible,          \* WebView shown full screen for verification
    currentRequest,     \* id of the request being serviced, NoRequest for null
    requestQueue,       \* sequence of waiting request ids
    isReady,            \* bridge marked ready
    webViewRef,         \* TRUE iff webViewRef?.current is a mounted WebView
    requestIdCounter,   \* module-level counter used to build request ids
    timers,             \* pending setTimeout(processNextRequest, 500) callbacks
    \* ---- the page inside the WebView
    inflight,           \* per request: injected fetches not yet answered
    \* ---- observation of the store's effects
    dispatchLog,        \* request ids in the order injectJavaScript was called
    settleLog,          \* [id, how, ok] for each resolve|reject callback, in the order they ran
    challenged,         \* per request: challenge answers handled so far
    axiosShows,         \* showWebView calls made by the axios interceptor
    unmounts,           \* times the provider was unmounted
    \* ---- DiscourseAPI client state
    csrfToken,          \* axiosInstance.defaults.headers.common["X-CSRF-Token"]
    isGettingCsrf,      \* refresh started by the request interceptor is running
    lastCsrfAttempt,    \* Date.now() of the last interceptor-started refresh
    axiosCounter,       \* requests handed to axiosInstance so far
    axiosInflight,      \* axios requests sent and not yet answered
    callPc,             \* per _exec call: "idle", "bridge", "axios", "done"
    callReq,            \* per _exec call: the bridge request it awaits
    callOutcome,        \* per _exec call: what its caller observed
    directCsrf,         \* direct get_session_csrf() calls made so far
    \* ---- observation of the client's effects
    discarded,          \* tokens dropped on a bad-CSRF answer
    refreshStarts,      \* refreshes started by the request interceptor
    badCsrfSeen,        \* bad-CSRF answers handled
    lastCsrf,           \* the token of the last response that carried one
    badSince,           \* a bad-CSRF answer was handled after lastCsrf came
    rejected,           \* tokens carried by requests answered bad-CSRF
    \* ---- the clock
    now,                \* Date.now()
    \* ---- cloudflareStore state
    isChallengePending,
    challengeHtml,
    challengeUrl,
    onChallengeComplete,
    \* ---- CloudflareChallengeModal
    hasCompleted,       \* hasCompletedRef.current
    modalTimers,        \* pending setTimeout(handleChallengeComplete, 1000)
    \* ---- observation
    shows,              \* showChallenge calls made so far
    callbackRuns,       \* per completion callback: times it was invoked
    \* ---- the document in the bridge WebView
    page,               \* kind of the page whose load completed last
    siteLoaded,         \* a load of a non-challenge page has completed
    \* ---- CookieManager (authStore.cookieManager)
    boxes,              \* per cookie box: its serialized jar, NoJar for null
    currentBox,         \* the box that is current
    boxCount,           \* boxes created so far
    \* ---- LinuxDoClient instances and linuxDoClientStore
    clientCount,        \* clients constructed so far
    clientJar,          \* per client: this.cookieJar
    clientBox,          \* per client: the box that was current when it was created
    storeClient,        \* linuxDoClientStore.client, 0 for null
    storeLoading,       \* linuxDoClientStore.isLoading
    logoutClients,      \* clients that had been created when logout last ran
    initAwaits,         \* the client whose get_session_csrf init() awaits, 0 for none
    \* ---- the system cookie store of the verification WebView
    webViewCookies,     \* clearance cookies set during the verification
    \* ---- observation
    authOps,            \* login, logout, switchAccount, mergeCfCookies calls so far
    handled,            \* the last response with Set-Cookie a client handled
    \* ---- one response (or failure) handed to the response interceptors
    respReceived,       \* error.response is set
    respStatus,         \* response.status
    respBody,           \* response.data
    respError,          \* what the interceptors returned or threw, NoError before
    \* ---- one _exec call up to the choice of the transport
    execName,           \* operationName
    execParams,         \* params: the keys given, each with its value
    execBuilt,          \* NotBuilt, the error thrown, or the request built
    \* ---- one construction of a client from a serialized jar
    loadInput,          \* opts.initialCookie
    loadedJar,          \* NoJar, or this.cookieJar after loadCookies
    \* ---- the same response fetched by the script injected in the WebView
    respBridge,         \* NoPageResponse, or the response object it posted
    \* ---- observation of the bridge's message handler
    strayMessages,      \* messages handled that were no answer to currentRequest
    \* ---- useActivityHistoryStore
    history,            \* state.history
    historyOps,         \* calls of the store made so far (the clock of Date.now())
    historyOp,          \* the last call: its name and the item it built
    \* ---- a store made by createCacheStore
    caches,             \* state.caches: name -> item, NoItem for undefined
    cacheNow,           \* Date.now() / new Date()
    cacheSets,          \* calls of set made so far; the uuids handed out
    cacheStored,        \* per name: what was last stored and when, NotStored
    cacheOp,            \* the last call of set: its arguments
    cacheGot            \* the last call of get: its argument and result

bridgeVars == <<isVisible, currentRequest, requestQueue, isReady, webViewRef,
                requestIdCounter, timers, inflight, dispatchLog, settleLog,
                challenged, axiosShows, unmounts>>

(* The store state as one value, so that nested calls compose.            *)
Bridge ==
    [isVisible |-> isVisible, currentRequest |-> currentRequest,
     requestQueue |-> requestQueue, isReady |-> isReady,
     webViewRef |-> webViewRef, requestIdCounter |-> requestIdCounter,
     timers |-> timers, inflight |-> inflight, dispatchLog |-> dispatchLog,
     settleLog |-> settleLog, challenged |-> challenged]

SetBridge(b) ==
    /\ isVisible' = b.isVisible
    /\ currentRequest' = b.currentRequest
    /\ requestQueue' = b.requestQueue
    /\ isReady' = b.isReady
    /\ webViewRef' = b.webViewRef
    /\ requestIdCounter' = b.requestIdCounter
    /\ timers' = b.timers
    /\ inflight' = b.inflight
    /\ dispatchLog' = b.dispatchLog
    /\ settleLog' = b.settleLog
    /\ challenged' = b.challenged

InitBridge ==
    /\ isVisible = FALSE
    /\ currentRequest = NoRequest
    /\ requestQueue = <<>>
    /\ isReady = FALSE
    /\ webViewRef = FALSE
    /\ requestIdCounter = 0
    /\ timers = 0
    /\ inflight = [r \in ReqIds |-> 0]
    /\ dispatchLog = <<>>
    /\ settleLog = <<>>
    /\ challenged = [r \in ReqIds |-> 0]
    /\ axiosShows = 0
    /\ unmounts = 0

(* ----------------------- webViewAPIStore methods ----------------------- *)
RECURSIVE sendRequestToWebView(_, _)
RECURSIVE processNextRequest(_)

\* request.resolve(response) / request.reject(error); ok is response.ok
Settle(b, r, how, ok) ==
    [b EXCEPT !.settleLog = Append(@, [id |-> r, how |-> how, ok |-> ok])]

\* webViewRef.current.injectJavaScript(jsCode): the fetch starts in the page
InjectFetch(b, r) ==
    [b EXCEPT !.inflight[r] = @ + 1, !.dispatchLog = Append(@, r)]

sendRequestToWebView(b, r) ==
    IF ~b.webViewRef
    THEN processNextRequest(Settle(b, r, "reject", FALSE))
    ELSE InjectFetch(b, r)

processNextRequest(b) ==
    IF b.currentRequest # NoRequest \/ ~b.isReady \/ Len(b.requestQueue) = 0
    THEN b
    ELSE sendRequestToWebView(
            [b EXCEPT !.currentRequest = Head(b.requestQueue),
                      !.requestQueue = Tail(b.requestQueue)],
            Head(b.requestQueue))

\* setReady(true): the flag, and a 500 ms timer that will run processNextRequest
setReady(b) == [b EXCEPT !.isReady = TRUE, !.timers = @ + 1]

showWebView(b) == [b EXCEPT !.isVisible = TRUE]

hideWebView(b) == [b EXCEPT !.isVisible = FALSE]

executeRequest(b) ==
    LET id == b.requestIdCounter + 1
        b1 == [b EXCEPT !.requestIdCounter = id]
    IN  IF b1.currentRequest = NoRequest /\ b1.isReady
        THEN sendRequestToWebView([b1 EXCEPT !.currentRequest = id], id)
        ELSE [b1 EXCEPT !.requestQueue = Append(@, id)]

(* What the server (or Cloudflare in front of it) can answer.  A body is   *)
(* either parsed JSON (an object; "csrfJson" is an object with a csrf      *)
(* field) or a string.                                                     *)
Markers == {"Just a moment...", "_cf_chl_opt", "challenge-platform",
            "cf-browser-verification"}
StringBodies == {"[\"BAD CSRF\"]", "plain text"} \cup Markers
JsonBodies == {"json", "csrfJson"}
\* the answers the transports are driven with: one of each class
ServerAnswers == {<<200, "json">>, <<200, "csrfJson">>, <<404, "plain text">>,
                  <<403, "[\"BAD CSRF\"]">>, <<403, "Just a moment...">>}

\* data.includes(marker), for the bodies of the model
Includes(body, marker) == body = marker

(* The script injected by sendRequestToWebView: the response object it     *)
(* posts back for a fetch that ended with (status, body).                  *)
PageResponse(status, body) ==
    LET ok == status >= 200 /\ status <= 299
    IN  [ok |-> ok,
         status |-> status,
         isCloudflareChallenge |->
             /\ ~ok
             /\ body \in StringBodies
             /\ \/ Includes(body, "Just a moment...")
                \/ Includes(body, "_cf_chl_opt")
                \/ Includes(body, "challenge-platform")]

\* mutant: the next queued request is not processed after the answer
handleApiResponseLeavesQueue(b, requestId, response) ==
    IF b.currentRequest # NoRequest /\ requestId = b.currentRequest
    THEN IF response.isCloudflareChallenge
         THEN showWebView([b EXCEPT !.challenged[requestId] = @ + 1])
         ELSE [Settle(b, requestId, "resolve", response.ok)
                  EXCEPT !.currentRequest = NoRequest]
    ELSE b

handleApiResponse(b, requestId, response) ==
    IF b.currentRequest # NoRequest /\ requestId = b.currentRequest
    THEN IF response.isCloudflareChallenge
         THEN showWebView([b EXCEPT !.challenged[requestId] = @ + 1])
         ELSE processNextRequest(
                [Settle(b, requestId, "resolve", response.ok)
                    EXCEPT !.currentRequest = NoRequest])
    ELSE b

\* mutant: an api_error rejects the current request whatever its requestId
handleApiErrorAnyId(b, requestId) ==
    IF b.currentRequest # NoRequest
    THEN processNextRequest(
            [Settle(b, b.currentRequest, "reject", FALSE)
                EXCEPT !.currentRequest = NoRequest])
    ELSE b

handleApiError(b, requestId) ==
    IF b.currentRequest # NoRequest /\ requestId = b.currentRequest
    THEN processNextRequest(
            [Settle(b, requestId, "reject", FALSE) EXCEPT !.currentRequest = NoRequest])
    ELSE b

\* mutant: the retry is not tied to the verification being shown
handlePageLoadedRetriesWhenHidden(b, isChallengePage) ==
    LET b1 == IF ~isChallengePage THEN setReady(b) ELSE b
    IN  IF ~isChallengePage
        THEN LET b2 == hideWebView(b1)
             IN  IF b.currentRequest # NoRequest
                 THEN sendRequestToWebView(b2, b.currentRequest)
                 ELSE b2
        ELSE b1

handlePageLoaded(b, isChallengePage) ==
    LET b1 == IF ~isChallengePage THEN setReady(b) ELSE b
    IN  IF b.isVisible /\ ~isChallengePage
        THEN LET b2 == hideWebView(b1)
             IN  IF b.currentRequest # NoRequest
                 THEN sendRequestToWebView(b2, b.currentRequest)
                 ELSE b2
        ELSE b1

(* handleWebViewMessage(dataStr): data is what JSON.parse returns, parsed *)
(* is FALSE when it throws (the catch block logs and returns).             *)
Message(parsed, type, requestId, response, isChallengePage) ==
    [parsed |-> parsed, type |-> type, requestId |-> requestId,
     response |-> response, isChallengePage |-> isChallengePage]
handleWebViewMessage(b, data) ==
    IF ~data.parsed THEN b
    ELSE IF data.type = "api_response"
         THEN handleApiResponse(b, data.requestId, data.response)
    ELSE IF data.type = "api_error"
         THEN handleApiError(b, data.requestId)
    ELSE IF data.type = "page_loaded"
         THEN handlePageLoaded(b, data.isChallengePage)
    ELSE b

\* the settle callbacks a handler ran: what it appended to settleLog
NewSettles(b) == SubSeq(b.settleLog, Len(settleLog) + 1, Len(b.settleLog))

(* --------------------------- DiscourseAPI ------------------------------ *)
clientVars == <<csrfToken, isGettingCsrf, lastCsrfAttempt, axiosCounter,
                axiosInflight, callPc, callReq, callOutcome, directCsrf,
                discarded, refreshStarts, badCsrfSeen, lastCsrf, badSince,
                rejected>>

Calls == 1..MaxCalls
CsrfUrl == "/session/csrf"
OpUrl == "/operation"
\* the values of defaults.headers.common["X-CSRF-Token"] that are no token
TokUndefined == <<"undefined">>
TokNull == <<"null">>
\* the token the server puts in the answer to axios request n
Tok(n) == <<"token", n>>
IsToken(t) == t # TokUndefined /\ t # TokNull
Client ==
    [csrfToken |-> csrfToken, isGettingCsrf |-> isGettingCsrf,
     lastCsrfAttempt |-> lastCsrfAttempt, axiosCounter |-> axiosCounter,
     axiosInflight |-> axiosInflight, callPc |-> callPc, callReq |-> callReq,
     callOutcome |-> callOutcome, directCsrf |-> directCsrf,
     discarded |-> discarded, refreshStarts |-> refreshStarts,
     badCsrfSeen |-> badCsrfSeen, lastCsrf |-> lastCsrf,
     badSince |-> badSince, rejected |-> rejected]

SetClient(k) ==
    /\ csrfToken' = k.csrfToken
    /\ isGettingCsrf' = k.isGettingCsrf
    /\ lastCsrfAttempt' = k.lastCsrfAttempt
    /\ axiosCounter' = k.axiosCounter
    /\ axiosInflight' = k.axiosInflight
    /\ callPc' = k.callPc
    /\ callReq' = k.callReq
    /\ callOutcome' = k.callOutcome
    /\ directCsrf' = k.directCsrf
    /\ discarded' = k.discarded
    /\ refreshStarts' = k.refreshStarts
    /\ badCsrfSeen' = k.badCsrfSeen
    /\ lastCsrf' = k.lastCsrf
    /\ badSince' = k.badSince
    /\ rejected' = k.rejected

InitClient ==
    /\ csrfToken = TokUndefined
    /\ isGettingCsrf = FALSE
    /\ lastCsrfAttempt = 0
    /\ axiosCounter = 0
    /\ axiosInflight = {}
    /\ callPc = [c \in Calls |-> "idle"]
    /\ callReq = [c \in Calls |-> NoRequest]
    /\ callOutcome = [c \in Calls |-> "none"]
    /\ directCsrf = 0
    /\ discarded = {}
    /\ refreshStarts = 0
    /\ badCsrfSeen = 0
    /\ lastCsrf = TokUndefined
    /\ badSince = FALSE
    /\ rejected = {}
    /\ now = StartTime

(* The request interceptor, run for a request to url made by `by` ("exec", *)
(* "direct" or "interceptor") on behalf of _exec call c.  The refresh it   *)
(* may start is itself a request through the same interceptor.             *)
RECURSIVE axiosSend(_, _, _, _)

\* now - this.lastCsrfAttempt > 1000
CsrfThrottleMs == 1000
ThrottleElapsed(k) == now - k.lastCsrfAttempt > CsrfThrottleMs

\* mutant: the throttle is not consulted
StartsRefreshUnthrottled(k, url) ==
    /\ k.csrfToken = TokNull
    /\ url # CsrfUrl
    /\ ~k.isGettingCsrf

\* the condition under which the interceptor starts get_session_csrf()
StartsRefresh(k, url) ==
    /\ k.csrfToken = TokNull
    /\ url # CsrfUrl
    /\ ~k.isGettingCsrf
    /\ ThrottleElapsed(k)

axiosSend(k, url, by, c) ==
    LET k1 == IF k.csrfToken = TokNull
              THEN [k EXCEPT !.csrfToken = TokUndefined]
              ELSE k
        k2 == IF StartsRefresh(k, url)
              THEN [k1 EXCEPT !.lastCsrfAttempt = now,
                              !.isGettingCsrf = TRUE,
                              !.refreshStarts = @ + 1]
              ELSE k1
        id == k2.axiosCounter + 1
        hdr == IF IsToken(k2.csrfToken) THEN k2.csrfToken ELSE TokUndefined
        k3 == [k2 EXCEPT !.axiosCounter = id,
                         !.axiosInflight = @ \cup
                            {[id |-> id, url |-> url, by |-> by, call |-> c,
                              hdr |-> hdr]}]
    IN  IF StartsRefresh(k, url)
        THEN axiosSend(k3, CsrfUrl, "interceptor", 0)
        ELSE k3

\* validateStatus of the axios instance
validateStatus(status) == (status >= 200 /\ status < 300) \/ status = 302

\* mutant: only status 403 is taken for a challenge
isCfChallengeOnly403(status, body) ==
    /\ status = 403
    /\ body \in StringBodies
    /\ \/ Includes(body, "Just a moment...")
       \/ Includes(body, "_cf_chl_opt")
       \/ Includes(body, "challenge-platform")
       \/ Includes(body, "cf-browser-verification")

\* the challenge test of the response error interceptor
isCfChallenge(status, body) ==
    /\ status = 403 \/ status = 503
    /\ body \in StringBodies
    /\ \/ Includes(body, "Just a moment...")
       \/ Includes(body, "_cf_chl_opt")
       \/ Includes(body, "challenge-platform")
       \/ Includes(body, "cf-browser-verification")

IsBadCsrf(status, body) == status = 403 /\ body = "[\"BAD CSRF\"]"

\* mutant: a challenge answer is reported like any other failed status
AxiosOutcomeNoChallenge(status, body) ==
    IF validateStatus(status) THEN "ok" ELSE "HTTPError"

\* what the promise of the request settles with
AxiosOutcome(status, body) ==
    IF validateStatus(status) THEN "ok"
    ELSE IF isCfChallenge(status, body) THEN "CloudflareChallenge"
    ELSE "HTTPError"

\* the error the response interceptors hand to the caller of the request:
\* HTTPError(status), the flagged challenge error, or the axios error itself
NoError == [kind |-> "none", status |-> 0]
interceptResponse(received, status, body) ==
    IF ~received THEN [kind |-> "NetworkError", status |-> 0]
    ELSE [kind |-> AxiosOutcome(status, body),
          status |-> IF AxiosOutcome(status, body) = "HTTPError" THEN status ELSE 0]

\* mutant: the csrf field of a response body is not stored
onAxiosResponseKeepsToken(k, q, status, body) ==
    IF validateStatus(status)
    THEN IF body = "csrfJson"
         THEN [k EXCEPT !.lastCsrf = Tok(q.id), !.badSince = FALSE]
         ELSE k
    ELSE IF IsBadCsrf(status, body)
         THEN [k EXCEPT !.csrfToken = TokNull,
                        !.badCsrfSeen = @ + 1,
                        !.badSince = TRUE,
                        !.rejected = IF IsToken(q.hdr)
                                     THEN @ \cup {q.hdr} ELSE @,
                        !.discarded = IF IsToken(k.csrfToken)
                                      THEN @ \cup {k.csrfToken} ELSE @]
         ELSE k

\* the response interceptors' effect on the client for request q
onAxiosResponse(k, q, status, body) ==
    IF validateStatus(status)
    THEN IF body = "csrfJson"
         THEN [k EXCEPT !.csrfToken = Tok(q.id),
                        !.lastCsrf = Tok(q.id), !.badSince = FALSE]
         ELSE k
    ELSE IF IsBadCsrf(status, body)
         THEN [k EXCEPT !.csrfToken = TokNull,
                        !.badCsrfSeen = @ + 1,
                        !.badSince = TRUE,
                        !.rejected = IF IsToken(q.hdr)
                                     THEN @ \cup {q.hdr} ELSE @,
                        !.discarded = IF IsToken(k.csrfToken)
                                      THEN @ \cup {k.csrfToken} ELSE @]
         ELSE k

\* mutant: the flag is not reset when the refresh ends
csrfFinallySkipped(k, q) == k

\* get_session_csrf().finally(() => { this.isGettingCsrf = false })
csrfFinally(k, q) ==
    IF q.by = "interceptor" THEN [k EXCEPT !.isGettingCsrf = FALSE] ELSE k

\* the awaiting _exec call continues with the promise's outcome
execAxiosDone(k, q, outcome) ==
    IF q.by = "exec"
    THEN [k EXCEPT !.callPc[q.call] = "done", !.callOutcome[q.call] = outcome]
    ELSE k

(* _exec on the bridge path: the continuation of `await executeRequest`    *)
(* for the settle callbacks a handler ran.  A resolved response that is ok *)
(* is returned; one that is not ok throws HTTPError inside the try block,  *)
(* and, like a rejection, is caught and falls through to axios.            *)
RECURSIVE execContinue(_, _)
execContinue(k, events) ==
    IF events = <<>> THEN k
    ELSE LET e == Head(events)
             owners == {c \in Calls : k.callPc[c] = "bridge" /\ k.callReq[c] = e.id}
         IN  IF owners = {}
             THEN execContinue(k, Tail(events))
             ELSE LET c == CHOOSE x \in owners : TRUE
                  IN  IF e.how = "resolve" /\ e.ok
                      THEN execContinue(
                             [k EXCEPT !.callPc[c] = "done",
                                       !.callOutcome[c] = "ok"],
                             Tail(events))
                      ELSE execContinue(
                             axiosSend([k EXCEPT !.callPc[c] = "axios"],
                                       OpUrl, "exec", c),
                             Tail(events))

(* --------------------------- cloudflareStore --------------------------- *)
challengeVars == <<isChallengePending, challengeHtml, challengeUrl,
                   onChallengeComplete, hasCompleted, modalTimers, shows,
                   callbackRuns>>

Null == "null"
Htmls == {"html1", "html2"}
Urls == {"url1", "url2"}
Callbacks == {"onComplete1", "onComplete2"}

Challenge ==
    [isChallengePending |-> isChallengePending, challengeHtml |-> challengeHtml,
     challengeUrl |-> challengeUrl, onChallengeComplete |-> onChallengeComplete,
     callbackRuns |-> callbackRuns]

SetChallenge(ch) ==
    /\ isChallengePending' = ch.isChallengePending
    /\ challengeHtml' = ch.challengeHtml
    /\ challengeUrl' = ch.challengeUrl
    /\ onChallengeComplete' = ch.onChallengeComplete
    /\ callbackRuns' = ch.callbackRuns

InitChallenge ==
    /\ isChallengePending = FALSE
    /\ challengeHtml = Null
    /\ challengeUrl = Null
    /\ onChallengeComplete = Null
    /\ hasCompleted = FALSE
    /\ modalTimers = 0
    /\ shows = 0
    /\ callbackRuns = [cb \in Callbacks |-> 0]

\* onComplete is Null when the optional argument is omitted
showChallenge(ch, html, url, onComplete) ==
    [ch EXCEPT !.isChallengePending = TRUE,
               !.challengeHtml = html,
               !.challengeUrl = url,
               !.onChallengeComplete = onComplete]

hideChallenge(ch) ==
    [ch EXCEPT !.isChallengePending = FALSE,
               !.challengeHtml = Null,
               !.challengeUrl = Null,
               !.onChallengeComplete = Null]

completeChallenge(ch) ==
    LET ch1 == IF ch.onChallengeComplete # Null
               THEN [ch EXCEPT !.callbackRuns[ch.onChallengeComplete] = @ + 1]
               ELSE ch
    IN  [ch1 EXCEPT !.isChallengePending = FALSE,
                    !.challengeHtml = Null,
                    !.challengeUrl = Null,
                    !.onChallengeComplete = Null]

(* -------------------------------- cookies ------------------------------ *)
cookieVars == <<boxes, currentBox, boxCount, clientCount, clientJar, clientBox,
                storeClient, storeLoading, initAwaits, webViewCookies, authOps,
                handled, logoutClients>>

\* cookie names, character by character
NameT == <<"_", "t">>
NameForumSession == <<"_", "f", "o", "r", "u", "m", "_", "s", "e", "s", "s",
                      "i", "o", "n">>
NameCfClearance == <<"c", "f", "_", "c", "l", "e", "a", "r", "a", "n", "c", "e">>
NameCfBm == <<"_", "_", "c", "f", "_", "b", "m">>
NameCfUvid == <<"_", "c", "f", "u", "v", "i", "d">>
NameCfChl == <<"c", "f", "_", "c", "h", "l">>
NameXCfClearance == <<"x", "_">> \o NameCfClearance

\* String.prototype.includes and startsWith
StrIncludes(str, sub) ==
    \E i \in 0..(Len(str) - Len(sub)) : SubSeq(str, i + 1, i + Len(sub)) = sub
StrStartsWith(str, prefix) ==
    Len(str) >= Len(prefix) /\ SubSeq(str, 1, Len(prefix)) = prefix

\* domains and paths of cookies; a path is its sequence of segments
LinuxDoDomain == "linux.do"
RootPath == <<>>

\* new Cookie({key, value, domain, path})
Cookie(key, value, domain, path) ==
    [key |-> key, value |-> value, domain |-> domain, path |-> path]

\* tough-cookie: a jar holds one cookie per (domain, path, key)
SameSlot(c, d) == c.domain = d.domain /\ c.path = d.path /\ c.key = d.key
JarSetCookie(jar, c) == {d \in jar : ~SameSlot(c, d)} \cup {c}
RECURSIVE JarSetCookies(_, _)
JarSetCookies(jar, cookies) ==
    IF cookies = {} THEN jar
    ELSE LET c == CHOOSE x \in cookies : TRUE
         IN  JarSetCookies(JarSetCookie(jar, c), cookies \ {c})

\* tough-cookie domainMatch / pathMatch against https://linux.do (path "/")
DomainMatch(host, domain) == domain = host
PathMatch(reqPath, cookiePath) ==
    /\ Len(cookiePath) <= Len(reqPath)
    /\ SubSeq(reqPath, 1, Len(cookiePath)) = cookiePath
\* cookieJar.getCookiesSync(this.url)
GetCookiesSync(jar) ==
    {c \in jar : DomainMatch(LinuxDoDomain, c.domain) /\ PathMatch(RootPath, c.path)}

\* DiscourseAPI.loadCookies: the jar of a client constructed with initialCookie
loadCookies(jar) ==
    JarSetCookies({}, {c \in GetCookiesSync(jar) : c.key # NameForumSession})

\* ---- CookieManager
\* getCurrentCookieJar() === null, kept apart from every jar of cookies
NoJar == {[key |-> <<"null">>, value |-> 0, domain |-> "null", path |-> <<>>]}
BoxIds == 1..MaxBoxes
CookieManager == [boxes |-> boxes, currentBox |-> currentBox, boxCount |-> boxCount]
getCurrentCookieJar(cm) == cm.boxes[cm.currentBox]
setCurrentCookieJar(cm, jar) == [cm EXCEPT !.boxes[cm.currentBox] = jar]
switchNewCookieBox(cm) ==
    [cm EXCEPT !.boxCount = @ + 1, !.currentBox = cm.boxCount + 1]
switchCookieBox(cm, uuid) == [cm EXCEPT !.currentBox = uuid]

\* ---- clients and the client store
\* no response with Set-Cookie handled yet
NoResponse == [client |-> 0]

ClientIds == 1..MaxClients
Accounts == [cm |-> CookieManager, clientCount |-> clientCount,
             clientJar |-> clientJar, clientBox |-> clientBox,
             storeClient |-> storeClient, storeLoading |-> storeLoading,
             initAwaits |-> initAwaits, logoutClients |-> logoutClients]

SetAccounts(a) ==
    /\ boxes' = a.cm.boxes
    /\ currentBox' = a.cm.currentBox
    /\ boxCount' = a.cm.boxCount
    /\ clientCount' = a.clientCount
    /\ clientJar' = a.clientJar
    /\ clientBox' = a.clientBox
    /\ storeClient' = a.storeClient
    /\ storeLoading' = a.storeLoading
    /\ initAwaits' = a.initAwaits
    /\ logoutClients' = a.logoutClients

InitCookies ==
    /\ boxes = [b \in BoxIds |-> NoJar]
    /\ currentBox = 1
    /\ boxCount = 1
    /\ clientCount = 0
    /\ clientJar = [c \in ClientIds |-> {}]
    /\ clientBox = [c \in ClientIds |-> 0]
    /\ storeClient = 0
    /\ storeLoading = FALSE
    /\ initAwaits = {}
    /\ logoutClients = 0
    /\ webViewCookies = {}
    /\ authOps = 0
    /\ handled = NoResponse

\* the cookieChanged listener registered by LinuxDoClient.create
emitCookieChanged(a, c) ==
    [a EXCEPT !.cm = setCurrentCookieJar(a.cm, a.clientJar[c])]

\* CookieManager.checkCookie can only accept a jar that holds the login cookie
CanBeValid(jar) == jar # NoJar /\ \E c \in jar : c.key = NameT

\* LinuxDoClient.create; valid is what checkCookie answered
create(a, valid) ==
    LET jar0 == getCurrentCookieJar(a.cm)
        initialCookie == IF jar0 # NoJar /\ valid THEN jar0 ELSE {}
        c == a.clientCount + 1
        a1 == [a EXCEPT !.clientCount = c,
                        !.clientJar[c] = loadCookies(initialCookie),
                        !.clientBox[c] = a.cm.currentBox]
    IN  emitCookieChanged(a1, c)

\* linuxDoClientStore.init up to its await of client.get_session_csrf()
init(a, valid) ==
    IF a.storeLoading THEN a
    ELSE LET a1 == create([a EXCEPT !.storeLoading = TRUE], valid)
         IN  [a1 EXCEPT !.initAwaits = @ \cup {a1.clientCount}]

\* authStore.login(cookieValue); the value names the account of the new box
login(a, valid) ==
    LET cm1 == switchNewCookieBox(a.cm)
        jar == {Cookie(NameT, cm1.currentBox, LinuxDoDomain, RootPath)}
    IN  init([a EXCEPT !.cm = setCurrentCookieJar(cm1, jar)], valid)

\* authStore.logout
logout(a) ==
    [a EXCEPT !.cm = switchNewCookieBox(a.cm),
              !.storeClient = 0,
              !.storeLoading = FALSE,
              !.logoutClients = a.clientCount]

\* authStore.switchAccount(uuid)
switchAccount(a, uuid, valid) ==
    LET a1 == logout(a)
    IN  init([a1 EXCEPT !.cm = switchCookieBox(a1.cm, uuid)], valid)

\* the names mergeCfCookies lets through
IsCfRelated(name) ==
    \/ \E key \in {NameCfClearance, NameCfBm, NameCfUvid} : StrIncludes(name, key)
    \/ StrStartsWith(name, <<"c", "f", "_">>)

\* authStore.mergeCfCookies(cfCookies); a cfCookie is [name, value]
mergeCfCookies(a, cfCookies, valid) ==
    LET jar0 == getCurrentCookieJar(a.cm)
        cookieJar == IF jar0 = NoJar THEN {} ELSE jar0
        relevantCookies == {c \in cfCookies : IsCfRelated(c.name)}
        merged == JarSetCookies(cookieJar,
                      {Cookie(c.name, c.value, LinuxDoDomain, RootPath) :
                          c \in relevantCookies})
    IN  init([a EXCEPT !.cm = setCurrentCookieJar(a.cm, merged)], valid)

\* the response success interceptor: set-cookie, then emitCookieChanged
onSetCookie(a, c, cookies) ==
    emitCookieChanged([a EXCEPT !.clientJar[c] = JarSetCookies(@, cookies)], c)

(* ------------------- one response through the interceptors ------------- *)
respVars == <<respReceived, respStatus, respBody, respError>>

\* statuses a server or Cloudflare answers with
ResponseStatuses == {200, 204, 301, 302, 400, 403, 404, 429, 500, 503}
\* response.data: a string, or parsed JSON
ResponseBodies == StringBodies \cup JsonBodies

InitResponse ==
    /\ respReceived \in BOOLEAN
    /\ respStatus \in IF respReceived THEN ResponseStatuses ELSE {0}
    /\ respBody \in IF respReceived THEN ResponseBodies ELSE {"none"}
    /\ respError = NoError

(* ------------------ _exec: from params to the request ------------------ *)
buildVars == <<execName, execParams, execBuilt>>

\* values a caller passes: a string, or undefined
Undefined == "undefined"
ParamValues == {"v", Undefined}
ParamNames == {"id", "q", "Api-Key", "raw", "title", "bogus"}

\* a parameter of an OpenAPI operation
Param(name, where, required) == [name |-> name, in |-> where, required |-> required]
\* a segment of a path template: a literal, or {name}
Lit(text) == [var |-> FALSE, text |-> text]
Var(name) == [var |-> TRUE, text |-> name]

(* byOperationId: operations of the shapes the OpenAPI descriptor holds.   *)
(* hasParameters is `"parameters" in operation.data`, hasBody is the       *)
(* requestBody test, bodyProperties the keys of its schema.properties.     *)
OperationNames == {"getTopic", "search", "createPost", "updateTopic", "getSite"}
byOperationId ==
    [name \in OperationNames |->
        CASE name = "getTopic" ->
               [path |-> <<Lit("t"), Var("id")>>, hasParameters |-> TRUE,
                parameters |-> {Param("id", "path", TRUE),
                                Param("Api-Key", "header", FALSE)},
                hasBody |-> FALSE, bodyProperties |-> {}, bodyRequired |-> {}]
          [] name = "search" ->
               [path |-> <<Lit("search")>>, hasParameters |-> TRUE,
                parameters |-> {Param("q", "query", TRUE)},
                hasBody |-> FALSE, bodyProperties |-> {}, bodyRequired |-> {}]
          [] name = "createPost" ->
               [path |-> <<Lit("posts")>>, hasParameters |-> FALSE,
                parameters |-> {},
                hasBody |-> TRUE, bodyProperties |-> {"raw", "title"},
                bodyRequired |-> {"raw"}]
          [] name = "updateTopic" ->
               [path |-> <<Lit("t"), Var("id")>>, hasParameters |-> TRUE,
                parameters |-> {Param("id", "path", TRUE)},
                hasBody |-> TRUE, bodyProperties |-> {"title"},
                bodyRequired |-> {}]
          [] OTHER ->
               [path |-> <<Lit("site")>>, hasParameters |-> FALSE,
                parameters |-> {},
                hasBody |-> FALSE, bodyProperties |-> {}, bodyRequired |-> {}]]

\* what a caller can name: the operations and a name that is none
CallNames == OperationNames \cup {"noSuchOperation"}

Defined(params, name) == name \in DOMAIN params /\ params[name] # Undefined

\* operation.path.replace(/\{([^}]+)\}/g, (_, p) => path[p] || `{${p}}`)
UrlOf(template, path) ==
    [i \in 1..Len(template) |->
        IF template[i].var /\ template[i].text \in path
        THEN Lit("v")
        ELSE template[i]]

NotBuilt == [outcome |-> "none"]
Thrown(message) == [outcome |-> "error", message |-> message]

\* mutant: the keys left in params are not checked
buildRequestIgnoresRest(operationName, params) ==
    IF operationName \notin DOMAIN byOperationId
    THEN Thrown("Unknown operation")
    ELSE
      LET operation == byOperationId[operationName]
          taken == {q \in operation.parameters : Defined(params, q.name)}
          left1 == DOMAIN params \ {q.name : q \in taken}
          body == IF operation.hasBody
                  THEN {n \in left1 \cap operation.bodyProperties :
                           Defined(params, n)}
                  ELSE {}
      IN  [outcome |-> "request",
           url |-> UrlOf(operation.path,
                         {q.name : q \in {t \in taken : t.in = "path"}}),
           header |-> {q.name : q \in {t \in taken : t.in = "header"}},
           query |-> {q.name : q \in {t \in taken : t.in = "query"}},
           body |-> body]

(* _exec from its first line to the request handed to a transport: the     *)
(* parameters are moved out of params by location, then the body           *)
(* properties; what is left in params is an error.                         *)
buildRequest(operationName, params) ==
    IF operationName \notin DOMAIN byOperationId
    THEN Thrown("Unknown operation")
    ELSE
      LET operation == byOperationId[operationName]
          taken == {q \in operation.parameters : Defined(params, q.name)}
          header == {q.name : q \in {t \in taken : t.in = "header"}}
          query == {q.name : q \in {t \in taken : t.in = "query"}}
          path == {q.name : q \in {t \in taken : t.in = "path"}}
          left1 == DOMAIN params \ {q.name : q \in taken}
          body == IF operation.hasBody
                  THEN {n \in left1 \cap operation.bodyProperties :
                           Defined(params, n)}
                  ELSE {}
          left2 == left1 \ body
      IN  IF ~operation.hasParameters /\ DOMAIN params # {}
          THEN Thrown("accepts no parameters")
          ELSE IF left2 # {}
          THEN Thrown("Unknown parameter(s)")
          ELSE [outcome |-> "request", url |-> UrlOf(operation.path, path),
                header |-> header, query |-> query, body |-> body]

InitBuild ==
    /\ execName \in CallNames
    /\ execParams \in UNION {[keys -> ParamValues] : keys \in SUBSET ParamNames}
    /\ execBuilt = NotBuilt

(* ---------------------- the page in the bridge WebView ------------------ *)
pageVars == <<page, siteLoaded>>

\* what https://linux.do answers the WebView with: the site, or the
\* Cloudflare interstitial ("Just a moment...")
PageKinds == {"site", "challenge"}

InitPage ==
    /\ page = "none"
    /\ siteLoaded = FALSE

\* notifyPageLoaded: isChallengePage as the injected script computes it
isChallengePageOf(kind) == kind = "challenge"

(* ------------------------------ actions -------------------------------- *)
\* the variables of the parts added after the bridge, client and challenge store
(* ---- a client constructed from a serialized cookie jar *)
loadVars == <<loadInput, loadedJar>>
CookieKeys == {NameT, NameForumSession, NameCfClearance}
CookieDomains == {LinuxDoDomain, "cdn.linux.do"}
CookiePaths == {RootPath, <<"t">>}
CookieValues == {1, 2}
AllCookies ==
    {Cookie(k, v, d, p) : k \in CookieKeys, v \in CookieValues,
                          d \in CookieDomains, p \in CookiePaths}
\* the jars CookieJar.deserializeSync can return: one cookie per slot
SerializedJars ==
    {j \in SUBSET AllCookies :
        /\ Cardinality(j) <= MaxJarCookies
        /\ \A c \in j : \A d \in j : SameSlot(c, d) => c = d}
InitLoad == loadInput = {} /\ loadedJar = NoJar

(* ---- state of the parts modelled one operation at a time *)
NoPageResponse == [ok |-> FALSE, status |-> 0, isCloudflareChallenge |-> FALSE]
(* ---- useActivityHistoryStore *)
historyVars == <<history, historyOps, historyOp>>
\* newHistory.length > 10, slice(0, 10)
HistoryLimit == 10
\* strings are kept as their "-"-separated segments
TagNames == {<<"t1">>, <<"t2">>, <<"t3">>, <<"t4">>, <<"t5">>, <<"t6">>, <<"t7">>}
\* ActivityScreenBaseParams as they arrive from the route
CommonParams(l) == [listTopics |-> l, id |-> <<>>, slug |-> <<>>, name |-> <<>>]
CategoryParams(i, g) ==
    [listTopics |-> "listCategoryTopics", id |-> i, slug |-> g, name |-> <<>>]
TagParams(n) == [listTopics |-> "getTag", id |-> <<>>, slug |-> <<>>, name |-> n]
HistoryParams ==
    {CommonParams(l) :
        l \in {"listLatestTopics", "listUnreadTopics", "listTopTopics"}}
    \cup {CategoryParams(i, g) :
            i \in {<<"1">>, <<"1", "dev">>}, g \in {<<"ops">>, <<"dev", "ops">>}}
    \cup {TagParams(n) : n \in TagNames}
Titles == {"a", "b"}
\* getIdFromParams throws Error("Invalid params")
InvalidParams == <<"throw">>
\* the template strings of getIdFromParams, segment by segment
getIdFromParams(params) ==
    IF params.listTopics \in {"listLatestTopics", "listUnreadTopics"}
    THEN <<"common", params.listTopics>>
    ELSE IF params.listTopics = "listCategoryTopics"
    THEN <<"category">> \o params.id \o params.slug
    ELSE IF params.listTopics = "getTag"
    THEN <<"tag">> \o params.name
    ELSE InvalidParams
HistoryItem(title, params, timestamp) ==
    [title |-> title, params |-> params, id |-> getIdFromParams(params),
     timestamp |-> timestamp]
WithoutId(h, id) == SelectSeq(h, LAMBDA i : i.id # id)

\* mutant: an earlier item with the same id is kept
addToHistoryKeepsOld(h, title, params, timestamp) ==
    IF getIdFromParams(params) = InvalidParams THEN h
    ELSE LET newHistory == <<HistoryItem(title, params, timestamp)>> \o h
         IN  IF Len(newHistory) > HistoryLimit
             THEN SubSeq(newHistory, 1, HistoryLimit)
             ELSE newHistory

addToHistory(h, title, params, timestamp) ==
    IF getIdFromParams(params) = InvalidParams THEN h
    ELSE LET newItem == HistoryItem(title, params, timestamp)
             newHistory == <<newItem>> \o WithoutId(h, newItem.id)
         IN  IF Len(newHistory) > HistoryLimit
             THEN SubSeq(newHistory, 1, HistoryLimit)
             ELSE newHistory
removeFromHistory(h, id) == WithoutId(h, id)
clearHistory(h) == <<>>

NoHistoryOp == [op |-> "none"]
\* a history of the longest kind the store can hold: ten tags and categories
RECURSIVE AddAll(_, _, _)
AddAll(h, paramsSeq, timestamp) ==
    IF paramsSeq = <<>> THEN h
    ELSE AddAll(addToHistory(h, "a", Head(paramsSeq), timestamp),
                Tail(paramsSeq), timestamp)
FullHistory ==
    AddAll(<<>>,
           <<TagParams(<<"t1">>), TagParams(<<"t2">>), TagParams(<<"t3">>),
             TagParams(<<"t4">>), TagParams(<<"t5">>), TagParams(<<"t6">>),
             TagParams(<<"t7">>), CategoryParams(<<"1">>, <<"ops">>),
             CommonParams("listLatestTopics"),
             CommonParams("listUnreadTopics")>>,
           0)

(* ---- createCacheStore *)
cacheVars == <<caches, cacheNow, cacheSets, cacheStored, cacheOp, cacheGot>>
\* lifetime: number = 10 * 60 * 1000
CacheLifetime == 600000
CacheNames == {"n1", "n2"}
CacheContents == {"x", "y"}
\* a value: its content and its __CACHE_IDENTIFIER__, 0 when it has none
CacheValue(content, ident) == [content |-> content, ident |-> ident]
CacheNull == CacheValue("null", 0)
NoItem == [value |-> CacheNull, expired |-> 0]

\* mutant: an item is returned whatever its expiry time
cacheGetIgnoresExpiry(store, name, date) ==
    IF store[name] = NoItem THEN CacheNull ELSE store[name].value

\* get(name) at new Date() = date
cacheGet(store, name, date) ==
    IF store[name] = NoItem THEN CacheNull
    ELSE IF store[name].expired < date THEN CacheNull
    ELSE store[name].value

\* set(name, value) at Date.now() = date; uuid is what uuidV4() returns
cacheSet(store, name, value, date, uuid) ==
    IF value = CacheNull THEN [store EXCEPT ![name] = NoItem]
    ELSE LET oldValue == cacheGet(store, name, date)
         IN  IF oldValue # CacheNull /\ oldValue.ident = value.ident
             THEN store
             ELSE [store EXCEPT ![name] =
                      [value |-> CacheValue(value.content, uuid),
                       expired |-> date + CacheLifetime]]

NotStored == [content |-> "null", at |-> 0, ident |-> 0]
NoCacheOp == [name |-> "none", value |-> CacheNull]
NoCacheGot == [name |-> "none", result |-> CacheNull]
InitCache ==
    /\ caches = [n \in CacheNames |-> NoItem]
    /\ cacheNow = 0
    /\ cacheSets = 0
    /\ cacheStored = [n \in CacheNames |-> NotStored]
    /\ cacheOp = NoCacheOp
    /\ cacheGot = NoCacheGot

tailVars == <<respBridge, strayMessages, historyVars, cacheVars>>
InitTail ==
    /\ respBridge = NoPageResponse /\ strayMessages = 0
    /\ history = <<>> /\ historyOps = 0 /\ historyOp = NoHistoryOp
    /\ InitCache

restVars == <<pageVars, cookieVars, respVars, buildVars, loadVars, tailVars>>

vars == <<bridgeVars, clientVars, now, challengeVars, restVars>>

Init == InitBridge /\ InitClient /\ InitChallenge /\ InitPage /\ InitCookies
        /\ respReceived = FALSE /\ respStatus = 0 /\ respBody = "none"
        /\ respError = NoError
        /\ execName = "getSite" /\ execParams = <<>> /\ execBuilt = NotBuilt
        /\ InitLoad
        /\ InitTail

\* a bridge handler ran and left the store in b: commit it, and let the
\* _exec calls whose promises it settled continue
Commit(b) ==
    /\ SetBridge(b)
    /\ SetClient(execContinue(Client, NewSettles(b)))
    /\ UNCHANGED <<axiosShows, unmounts, now, challengeVars, restVars>>

SumChallenged == LET RECURSIVE Sum(_)
                     Sum(n) == IF n = 0 THEN 0 ELSE challenged[n] + Sum(n - 1)
                 IN  Sum(MaxReq)

(* WebViewAPIProvider mounts: useEffect hands the ref to the store and the *)
(* hidden WebView starts loading.                                          *)
ProviderMount ==
    /\ ~webViewRef
    /\ Commit([Bridge EXCEPT !.webViewRef = TRUE])

(* RootLayout renders the loading screen instead of Providers (authStore   *)
(* isLoading): the WebView is destroyed with the fetches running in it.    *)
ProviderUnmount ==
    /\ webViewRef
    /\ unmounts < MaxUnmounts
    /\ unmounts' = unmounts + 1
    /\ SetBridge([Bridge EXCEPT !.webViewRef = FALSE,
                                !.inflight = [r \in ReqIds |-> 0]])
    /\ UNCHANGED <<axiosShows, clientVars, now, challengeVars, restVars>>

handleLoadEnd ==
    /\ webViewRef
    /\ timers < MaxTimers
    /\ Commit(setReady(Bridge))

handleNavigationStateChange ==
    /\ webViewRef
    /\ timers < MaxTimers
    /\ \E loading \in BOOLEAN, isLinuxDo \in BOOLEAN :
          IF ~loading /\ isLinuxDo
          THEN Commit(setReady(Bridge))
          ELSE UNCHANGED vars

\* the 500 ms timer of setReady fires
TimerFire ==
    /\ timers > 0
    /\ Commit(processNextRequest([Bridge EXCEPT !.timers = @ - 1]))

\* the close button of the verification modal
handleClose ==
    /\ isVisible
    /\ Commit(hideWebView(Bridge))

\* webViewFetch(path, options): a caller uses the bridge directly
webViewFetch ==
    /\ requestIdCounter < MaxReq
    /\ Commit(executeRequest(Bridge))

\* the page posts api_response for a fetch that ended with (status, body)
PageApiResponse ==
    \E r \in ReqIds, a \in ServerAnswers :
      LET response == PageResponse(a[1], a[2])
      IN
        /\ webViewRef
        /\ inflight[r] > 0
        /\ (response.isCloudflareChallenge /\ r = currentRequest)
              => SumChallenged < MaxChallenges
        /\ Commit(handleApiResponse([Bridge EXCEPT !.inflight[r] = @ - 1], r,
                                    response))

\* the page posts api_error: the fetch threw
PageApiError ==
    \E r \in ReqIds :
        /\ webViewRef
        /\ inflight[r] > 0
        /\ Commit(handleApiError([Bridge EXCEPT !.inflight[r] = @ - 1], r))

\* the script injected into every page posts page_loaded
PageLoaded ==
    \E isChallengePage \in BOOLEAN :
        /\ webViewRef
        /\ ~isChallengePage => timers < MaxTimers
        /\ Commit(handlePageLoaded(Bridge, isChallengePage))

(* An axios request made outside _exec (get_session_csrf, login, ...) is   *)
(* answered with a challenge: the error interceptor shows the WebView.     *)
AxiosShowsWebView ==
    /\ axiosShows < MaxAxiosChallenges
    /\ axiosShows' = axiosShows + 1
    /\ SetBridge(showWebView(Bridge))
    /\ UNCHANGED <<unmounts, clientVars, now, challengeVars, restVars>>

storeVars == <<isVisible, currentRequest, requestQueue, isReady, webViewRef,
               requestIdCounter, timers, inflight, dispatchLog, settleLog,
               challenged>>

(* _exec(operationName, params) for a request that passed validation.      *)
ExecStart ==
    \E c \in Calls :
        /\ callPc[c] = "idle"
        /\ \A d \in Calls : d < c => callPc[d] # "idle"
        /\ IF isReady
           THEN /\ requestIdCounter < MaxReq
                /\ LET b == executeRequest(Bridge)
                       k == [Client EXCEPT !.callPc[c] = "bridge",
                                           !.callReq[c] = b.requestIdCounter]
                   IN  /\ SetBridge(b)
                       /\ SetClient(execContinue(k, NewSettles(b)))
           ELSE /\ SetClient(axiosSend([Client EXCEPT !.callPc[c] = "axios"],
                                       OpUrl, "exec", c))
                /\ UNCHANGED storeVars
        /\ UNCHANGED <<axiosShows, unmounts, now, challengeVars, restVars>>

\* await this.get_session_csrf() in createBookmark, the client store's init, ...
GetSessionCsrf ==
    /\ directCsrf < MaxDirectCsrf
    /\ SetClient(axiosSend([Client EXCEPT !.directCsrf = @ + 1],
                           CsrfUrl, "direct", 0))
    /\ UNCHANGED <<bridgeVars, now, challengeVars, restVars>>

\* the server answers axios request q with (status, body) = a
AxiosAnswered(q, a) ==
    LET status == a[1]
        body == a[2]
        k1 == [Client EXCEPT !.axiosInflight = @ \ {q}]
        k2 == onAxiosResponse(k1, q, status, body)
        k3 == csrfFinally(k2, q)
    IN  /\ (q.url = CsrfUrl /\ status = 200) => body = "csrfJson"
        /\ SetClient(execAxiosDone(k3, q, AxiosOutcome(status, body)))
        /\ IF ~validateStatus(status) /\ isCfChallenge(status, body)
           THEN SetBridge(showWebView(Bridge))
           ELSE UNCHANGED storeVars
        /\ UNCHANGED <<axiosShows, unmounts, now, challengeVars, restVars>>

AxiosResponse == \E q \in axiosInflight, a \in ServerAnswers : AxiosAnswered(q, a)

\* the same, with a server that neither hands out nor rejects CSRF tokens
ExecAnswers == {a \in ServerAnswers : a[2] # "csrfJson" /\ ~IsBadCsrf(a[1], a[2])}
ExecAxiosResponse == \E q \in axiosInflight, a \in ExecAnswers : AxiosAnswered(q, a)

\* no response is received for axios request q (timeout, connection lost)
AxiosNoResponse ==
    \E q \in axiosInflight :
        /\ LET k1 == [Client EXCEPT !.axiosInflight = @ \ {q}]
           IN  SetClient(execAxiosDone(csrfFinally(k1, q), q, "NetworkError"))
        /\ UNCHANGED <<bridgeVars, now, challengeVars, restVars>>

Tick ==
    /\ now + TickMs <= MaxNow
    /\ now' = now + TickMs
    /\ UNCHANGED <<bridgeVars, clientVars, challengeVars, restVars>>

(* The challenge store and its modal.  Nothing in the application calls    *)
(* showChallenge with fixed arguments, so they are drawn freely.           *)
ShowChallenge ==
    \E html \in Htmls, url \in Urls, onComplete \in Callbacks \cup {Null} :
        /\ shows < MaxShows
        /\ shows' = shows + 1
        /\ SetChallenge(showChallenge(Challenge, html, url, onComplete))
        \* useEffect([isChallengePending]): reset when the flag turns true
        /\ hasCompleted' = IF ~isChallengePending THEN FALSE ELSE hasCompleted
        /\ UNCHANGED <<modalTimers, bridgeVars, clientVars, now, restVars>>

\* the close button of the challenge modal
modalHandleClose ==
    /\ isChallengePending
    /\ SetChallenge(hideChallenge(Challenge))
    /\ UNCHANGED <<hasCompleted, modalTimers, shows, bridgeVars, clientVars, now, restVars>>

\* onNavigationStateChange of the modal's WebView
modalHandleNavigationStateChange ==
    \E loading \in BOOLEAN, isLinuxDo \in BOOLEAN, isCdnCgi \in BOOLEAN,
       isJustAMoment \in BOOLEAN :
        /\ isChallengePending
        /\ modalTimers < MaxModalTimers
        /\ ~loading /\ isLinuxDo /\ ~isCdnCgi /\ ~isJustAMoment
        /\ modalTimers' = modalTimers + 1
        /\ UNCHANGED <<isChallengePending, challengeHtml, challengeUrl,
                       onChallengeComplete, hasCompleted, shows, callbackRuns,
                       bridgeVars, clientVars, now, restVars>>

\* the 1000 ms timer fires: handleChallengeComplete
handleChallengeComplete ==
    /\ modalTimers > 0
    /\ modalTimers' = modalTimers - 1
    /\ IF hasCompleted
       THEN UNCHANGED <<isChallengePending, challengeHtml, challengeUrl,
                        onChallengeComplete, callbackRuns, hasCompleted>>
       ELSE /\ hasCompleted' = TRUE
            /\ SetChallenge(completeChallenge(Challenge))
    /\ UNCHANGED <<shows, bridgeVars, clientVars, now, restVars>>

(* The WebView finishes loading a document: the site or the interstitial.  *)
(* onLoadEnd, onNavigationStateChange and the injected script's page_loaded*)
(* message follow as separate events.                                      *)
WebViewLoads ==
    \E kind \in PageKinds :
        /\ webViewRef
        /\ page' = kind
        /\ siteLoaded' = (siteLoaded \/ kind = "site")
        /\ UNCHANGED <<bridgeVars, clientVars, now, challengeVars, cookieVars,
                       respVars, buildVars, loadVars, tailVars>>

\* onLoadEnd of the document that was loaded
onLoadEnd ==
    /\ page # "none"
    /\ handleLoadEnd

\* onNavigationStateChange of the document that was loaded
onNavigationStateChange ==
    /\ page # "none"
    /\ handleNavigationStateChange

\* the page_loaded message of the document that was loaded
onPageLoadedMessage ==
    /\ page # "none"
    /\ webViewRef
    /\ ~isChallengePageOf(page) => timers < MaxTimers
    /\ Commit(handlePageLoaded(Bridge, isChallengePageOf(page)))

(* ---- authStore, clients and cookies *)
otherThanCookies == <<bridgeVars, clientVars, now, challengeVars, pageVars,
                      respVars, buildVars, loadVars, tailVars>>

\* the values a challenge-clearance cookie and a server cookie can carry
ClearanceValue == 0
\* what a caller can hand to mergeCfCookies
CfCookieInputs ==
    {[name |-> n, value |-> ClearanceValue] :
        n \in {NameCfClearance, NameCfBm, NameXCfClearance, NameCfChl}}
    \cup {[name |-> NameT, value |-> b] : b \in BoxIds}
\* the cookies the server sets on a response to a client of account b
ServerCookies(b) ==
    {Cookie(n, b, LinuxDoDomain, RootPath) : n \in {NameT, NameForumSession}}

Login ==
    \E valid \in BOOLEAN :
        /\ authOps < MaxAuthOps
        /\ boxCount < MaxBoxes
        /\ storeLoading \/ clientCount < MaxClients
        /\ authOps' = authOps + 1
        /\ SetAccounts(login(Accounts, valid))
        /\ UNCHANGED <<webViewCookies, handled, otherThanCookies>>

Logout ==
    /\ authOps < MaxAuthOps
    /\ boxCount < MaxBoxes
    /\ authOps' = authOps + 1
    /\ SetAccounts(logout(Accounts))
    /\ UNCHANGED <<webViewCookies, handled, otherThanCookies>>

SwitchAccount ==
    \E uuid \in 1..boxCount :
        /\ authOps < MaxAuthOps
        /\ boxCount < MaxBoxes
        /\ clientCount < MaxClients
        /\ authOps' = authOps + 1
        /\ SetAccounts(switchAccount(Accounts, uuid, CanBeValid(boxes[uuid])))
        /\ UNCHANGED <<webViewCookies, handled, otherThanCookies>>

MergeCfCookies ==
    \E c1 \in CfCookieInputs, c2 \in CfCookieInputs, valid \in BOOLEAN :
        /\ authOps < MaxAuthOps
        /\ storeLoading \/ clientCount < MaxClients
        /\ authOps' = authOps + 1
        /\ SetAccounts(mergeCfCookies(Accounts, {c1, c2}, valid))
        /\ UNCHANGED <<webViewCookies, handled, otherThanCookies>>

\* init(): get_session_csrf of the new client ended; set({client, isLoading})
InitCsrfAnswered ==
    \E c \in initAwaits : \E cookies \in SUBSET ServerCookies(clientBox[c]) :
        LET a1 == IF cookies = {} THEN Accounts
                  ELSE onSetCookie(Accounts, c, cookies)
        IN  /\ SetAccounts([a1 EXCEPT !.storeClient = c,
                                      !.storeLoading = FALSE,
                                      !.initAwaits = @ \ {c}])
            /\ UNCHANGED <<webViewCookies, authOps, handled, otherThanCookies>>

\* a successful response with set-cookie reaches a client, current or not
ClientSetCookieResponse ==
    \E c \in 1..clientCount : \E cookie \in ServerCookies(clientBox[c]) :
        /\ SetAccounts(onSetCookie(Accounts, c, {cookie}))
        /\ UNCHANGED <<webViewCookies, authOps, handled, otherThanCookies>>

\* statuses of the responses that carry Set-Cookie
SetCookieStatuses == {200, 302, 403, 404, 503}

(* A response with Set-Cookie reaches a client: the success interceptor    *)
(* handles it when validateStatus accepts the status, the error            *)
(* interceptor otherwise.                                                  *)
ClientResponseWithCookie ==
    \E c \in 1..clientCount, status \in SetCookieStatuses :
      \E cookie \in ServerCookies(clientBox[c]) :
        /\ handled' = [client |-> c, status |-> status, cookie |-> cookie]
        /\ SetAccounts(IF validateStatus(status)
                       THEN onSetCookie(Accounts, c, {cookie})
                       ELSE Accounts)
        /\ UNCHANGED <<webViewCookies, authOps, otherThanCookies>>

\* the clearance cookies Cloudflare sets in the WebView that shows the challenge
ClearanceCookies ==
    {[name |-> n, value |-> ClearanceValue] : n \in {NameCfClearance, NameCfBm}}

(* While the challenge modal is shown, Cloudflare sets a clearance cookie  *)
(* in the system cookie store of its WebView.                              *)
VerificationSetsCookie ==
    \E c \in ClearanceCookies :
        /\ isChallengePending
        /\ c \notin webViewCookies
        /\ webViewCookies' = webViewCookies \cup {c}
        /\ UNCHANGED <<boxes, currentBox, boxCount, clientCount, clientJar,
                       clientBox, storeClient, storeLoading, initAwaits,
                       logoutClients, authOps,
                       handled, otherThanCookies>>

\* mergeCfCookies called with the cookies read from the verification WebView
MergeClearance ==
    \E valid \in BOOLEAN :
        /\ webViewCookies # {}
        /\ authOps < MaxAuthOps
        /\ storeLoading \/ clientCount < MaxClients
        /\ authOps' = authOps + 1
        /\ SetAccounts(mergeCfCookies(Accounts, webViewCookies, valid))
        /\ UNCHANGED <<webViewCookies, handled, otherThanCookies>>

\* the response interceptors handle the response (or the failure without one)
InterceptResponse ==
    /\ respError = NoError
    /\ respError' = interceptResponse(respReceived, respStatus, respBody)
    /\ UNCHANGED <<respReceived, respStatus, respBody, bridgeVars, clientVars,
                   now, challengeVars, pageVars, cookieVars, buildVars,
                   loadVars, tailVars>>

\* _exec runs up to the point where it hands the request to a transport
BuildRequest ==
    /\ execBuilt = NotBuilt
    /\ execBuilt' = buildRequest(execName, execParams)
    /\ UNCHANGED <<execName, execParams, bridgeVars, clientVars, now,
                   challengeVars, pageVars, cookieVars, respVars, loadVars,
                   tailVars>>

\* new DiscourseAPI(url, {initialCookie}): loadCookies into the empty jar
LoadCookies ==
    /\ loadedJar = NoJar
    /\ loadedJar' = loadCookies(loadInput)
    /\ UNCHANGED <<loadInput, bridgeVars, clientVars, now, challengeVars,
                   pageVars, cookieVars, respVars, buildVars, tailVars>>

\* everything the one-operation actions below leave alone
headVars == <<bridgeVars, clientVars, now, challengeVars, pageVars,
              cookieVars, buildVars, loadVars>>

\* the injected script's fetch ended with the response and posts api_response
InjectedFetchResponds ==
    /\ respReceived
    /\ respBridge = NoPageResponse
    /\ respBridge' = PageResponse(respStatus, respBody)
    /\ UNCHANGED <<headVars, respVars, strayMessages, historyVars, cacheVars>>

(* A message that answers no current request: text that is no JSON, a     *)
(* message of a type the handler does not know, or an api_response or      *)
(* api_error naming a request that is not current.                         *)
StrayMessages ==
    {Message(FALSE, "none", NoRequest, NoPageResponse, FALSE),
     Message(TRUE, "console_log", NoRequest, NoPageResponse, FALSE)}
    \cup {Message(TRUE, "api_response", r, PageResponse(a[1], a[2]), FALSE) :
             r \in {x \in ReqIds : x # currentRequest}, a \in ServerAnswers}
    \cup {Message(TRUE, "api_error", r, NoPageResponse, FALSE) :
             r \in {x \in ReqIds : x # currentRequest}}
StrayMessage ==
    \E data \in StrayMessages :
        /\ webViewRef
        /\ strayMessages < MaxStrayMessages
        /\ strayMessages' = strayMessages + 1
        /\ SetBridge(handleWebViewMessage(Bridge, data))
        /\ SetClient(execContinue(Client,
                NewSettles(handleWebViewMessage(Bridge, data))))
        /\ UNCHANGED <<axiosShows, unmounts, now, challengeVars, pageVars,
                       cookieVars, respVars, buildVars, loadVars, respBridge,
                       historyVars, cacheVars>>

\* a screen is opened: historyStore.addToHistory(title, params)
AddToHistory ==
    \E title \in Titles, params \in HistoryParams :
        /\ historyOps < MaxHistoryOps
        /\ historyOps' = historyOps + 1
        /\ history' = addToHistory(history, title, params, historyOps + 1)
        /\ historyOp' = [op |-> "addToHistory",
                         item |-> HistoryItem(title, params, historyOps + 1)]
        /\ UNCHANGED <<headVars, respVars, respBridge, strayMessages,
                       cacheVars>>

\* the id is that of a listed item, or of none
RemoveFromHistory ==
    \E id \in {history[i].id : i \in 1..Len(history)}
               \cup {getIdFromParams(TagParams(<<"t1">>))} :
        /\ historyOps < MaxHistoryOps
        /\ historyOps' = historyOps + 1
        /\ history' = removeFromHistory(history, id)
        /\ historyOp' = [op |-> "removeFromHistory", id |-> id]
        /\ UNCHANGED <<headVars, respVars, respBridge, strayMessages,
                       cacheVars>>

ClearHistory ==
    /\ historyOps < MaxHistoryOps
    /\ historyOps' = historyOps + 1
    /\ history' = clearHistory(history)
    /\ historyOp' = [op |-> "clearHistory"]
    /\ UNCHANGED <<headVars, respVars, respBridge, strayMessages, cacheVars>>

(* A component calls set(name, value): the value is null, new data (no     *)
(* identifier), or data that came out of the cache before and still carries *)
(* the identifier it was given then.                                        *)
CacheSet ==
    \E name \in CacheNames :
    \E value \in {CacheNull}
                 \cup {CacheValue(c, i) : c \in CacheContents, i \in 0..cacheSets} :
        LET live == cacheStored[name] # NotStored
                      /\ ~(cacheStored[name].at + CacheLifetime < cacheNow)
            same == live /\ value.ident = cacheStored[name].ident
        IN  /\ cacheSets < MaxCacheSets
            /\ cacheSets' = cacheSets + 1
            /\ caches' = cacheSet(caches, name, value, cacheNow, cacheSets + 1)
            /\ cacheOp' = [name |-> name, value |-> value]
            /\ cacheStored' =
                  IF value = CacheNull
                  THEN [cacheStored EXCEPT ![name] = NotStored]
                  ELSE IF same THEN cacheStored
                  ELSE [cacheStored EXCEPT ![name] =
                           [content |-> value.content, at |-> cacheNow,
                            ident |-> cacheSets + 1]]
            /\ UNCHANGED <<cacheNow, cacheGot, headVars, respVars, respBridge,
                           strayMessages, historyVars>>

\* a component calls get(name)
CacheGet ==
    \E name \in CacheNames :
        /\ cacheGot' = [name |-> name, result |-> cacheGet(caches, name, cacheNow)]
        /\ UNCHANGED <<caches, cacheNow, cacheSets, cacheStored, cacheOp,
                       headVars, respVars, respBridge, strayMessages,
                       historyVars>>

CacheTick ==
    /\ cacheNow + CacheTickMs <= MaxCacheNow
    /\ cacheNow' = cacheNow + CacheTickMs
    /\ UNCHANGED <<caches, cacheSets, cacheStored, cacheOp, cacheGot, headVars,
                   respVars, respBridge, strayMessages, historyVars>>

BridgeEnv ==
    \/ ProviderMount
    \/ ProviderUnmount
    \/ handleLoadEnd
    \/ handleNavigationStateChange
    \/ TimerFire
    \/ handleClose
    \/ PageApiResponse
    \/ PageApiError
    \/ PageLoaded

\* the bridge store driven directly
NextBridge ==
    \/ BridgeEnv
    \/ webViewFetch
    \/ AxiosShowsWebView

SpecBridge == Init /\ [][NextBridge]_vars

\* the bridge store with every kind of inbound message
NextMessages ==
    \/ ProviderMount
    \/ handleLoadEnd
    \/ TimerFire
    \/ webViewFetch
    \/ PageApiResponse
    \/ PageApiError
    \/ PageLoaded
    \/ AxiosShowsWebView
    \/ StrayMessage

SpecMessages == Init /\ [][NextMessages]_vars

(* What the runtime guarantees: a timer fires, a fetch in a mounted page   *)
(* ends (answer or error), and the provider comes back and its page loads. *)
FairBridge ==
    /\ WF_vars(TimerFire)
    /\ WF_vars(PageApiResponse \/ PageApiError)
    /\ WF_vars(ProviderMount)
    /\ WF_vars(handleLoadEnd)

FairSpecBridge == SpecBridge /\ FairBridge

\* the bridge with the documents its WebView loads
NextReady ==
    \/ ProviderMount
    \/ WebViewLoads
    \/ onLoadEnd
    \/ onNavigationStateChange
    \/ onPageLoadedMessage
    \/ TimerFire
    \/ webViewFetch
    \/ PageApiResponse
    \/ PageApiError

SpecReady == Init /\ [][NextReady]_vars

\* accounts, clients and the cookie boxes
NextAccounts ==
    \/ Login
    \/ Logout
    \/ SwitchAccount
    \/ MergeCfCookies
    \/ InitCsrfAnswered
    \/ ClientSetCookieResponse

SpecAccounts == Init /\ [][NextAccounts]_vars

\* the challenge modal, the cookies of its WebView and the cookie store
NextClearance ==
    \/ ShowChallenge
    \/ VerificationSetsCookie
    \/ modalHandleClose
    \/ modalHandleNavigationStateChange
    \/ handleChallengeComplete
    \/ MergeClearance
    \/ InitCsrfAnswered

SpecClearance == Init /\ [][NextClearance]_vars

\* any one response through the interceptors of the primary transport
InitClassify ==
    /\ InitBridge /\ InitClient /\ InitChallenge /\ InitPage /\ InitCookies
    /\ InitResponse
    /\ execName = "getSite" /\ execParams = <<>> /\ execBuilt = NotBuilt
    /\ InitLoad
    /\ InitTail

SpecClassify == InitClassify /\ [][InterceptResponse]_vars

\* any one _exec call, from its arguments to the request built
InitParams ==
    /\ InitBridge /\ InitClient /\ InitChallenge /\ InitPage /\ InitCookies
    /\ respReceived = FALSE /\ respStatus = 0 /\ respBody = "none"
    /\ respError = NoError
    /\ InitBuild
    /\ InitLoad
    /\ InitTail

SpecParams == InitParams /\ [][BuildRequest]_vars

\* one response, seen by the interceptors and by the injected script
SpecTransports ==
    InitClassify /\ [][InterceptResponse \/ InjectedFetchResponds]_vars

\* the activity history store, from an empty and from a full history
InitHistory ==
    /\ InitBridge /\ InitClient /\ InitChallenge /\ InitPage /\ InitCookies
    /\ respReceived = FALSE /\ respStatus = 0 /\ respBody = "none"
    /\ respError = NoError
    /\ execName = "getSite" /\ execParams = <<>> /\ execBuilt = NotBuilt
    /\ InitLoad
    /\ respBridge = NoPageResponse /\ strayMessages = 0
    /\ history \in {<<>>, FullHistory}
    /\ historyOps = 0
    /\ historyOp = NoHistoryOp
    /\ InitCache

NextHistory ==
    \/ AddToHistory
    \/ RemoveFromHistory
    \/ ClearHistory

SpecHistory == InitHistory /\ [][NextHistory]_vars

\* a cache store and its callers
NextCache ==
    \/ CacheSet
    \/ CacheGet
    \/ CacheTick

SpecCache == Init /\ [][NextCache]_vars

\* any one serialized jar loaded into a new client
InitLoadCookies ==
    /\ InitBridge /\ InitClient /\ InitChallenge /\ InitPage /\ InitCookies
    /\ respReceived = FALSE /\ respStatus = 0 /\ respBody = "none"
    /\ respError = NoError
    /\ execName = "getSite" /\ execParams = <<>> /\ execBuilt = NotBuilt
    /\ loadInput \in SerializedJars
    /\ loadedJar = NoJar
    /\ InitTail

SpecLoadCookies == InitLoadCookies /\ [][LoadCookies]_vars

\* clients receiving responses that set cookies
NextSetCookie ==
    \/ Login
    \/ InitCsrfAnswered
    \/ ClientResponseWithCookie

SpecSetCookie == Init /\ [][NextSetCookie]_vars

\* _exec over both transports
NextExec ==
    \/ BridgeEnv
    \/ ExecStart
    \/ ExecAxiosResponse
    \/ AxiosNoResponse

SpecExec == Init /\ [][NextExec]_vars

\* the primary transport alone (the bridge never becomes ready)
NextCsrf ==
    \/ ExecStart
    \/ GetSessionCsrf
    \/ AxiosResponse
    \/ AxiosNoResponse
    \/ Tick

SpecCsrf == Init /\ [][NextCsrf]_vars

\* the challenge store and modal
NextChallenge ==
    \/ ShowChallenge
    \/ modalHandleClose
    \/ modalHandleNavigationStateChange
    \/ handleChallengeComplete

SpecChallenge == Init /\ [][NextChallenge]_vars

(* ------------------------------ properties ----------------------------- *)
Count(r, log) == Cardinality({i \in 1..Len(log) : log[i] = r})
InQueue(r) == \E i \in 1..Len(requestQueue) : requestQueue[i] = r
SettleCount(r) == Cardinality({i \in 1..Len(settleLog) : settleLog[i].id = r})
Outstanding == LET RECURSIVE Sum(_)
                   Sum(n) == IF n = 0 THEN 0 ELSE inflight[n] + Sum(n - 1)
               IN  Sum(MaxReq)

\* C1: requests are injected into the WebView in the order executeRequest was
\* called (ids are issued in call order) and settled in that order, and no
\* request is injected while a request issued before it is still queued.
C1_FifoDispatchAndSettle ==
    /\ \A i, j \in 1..Len(dispatchLog) : i < j => dispatchLog[i] <= dispatchLog[j]
    /\ \A i, j \in 1..Len(settleLog) : i < j => settleLog[i].id <= settleLog[j].id
    /\ \A i \in 1..Len(requestQueue), j \in 1..Len(dispatchLog) :
          dispatchLog[j] < requestQueue[i]

\* C2: at most one injected fetch is outstanding (injected and not yet answered
\* by api_response or api_error) in every reachable state.
C2_AtMostOneOutstanding == Outstanding <= 1

\* C10: a request is settled at most once, a settled request is neither
\* currentRequest nor queued, and no request is both current and queued.
C10_SettledOnceAndUntracked ==
    \A r \in ReqIds :
        /\ SettleCount(r) <= 1
        /\ SettleCount(r) > 0 => (currentRequest # r /\ ~InQueue(r))
        /\ ~(currentRequest = r /\ InQueue(r))

\* C3: at most one /session/csrf request of the client is in flight at any
\* instant, whoever started it (the request interceptor or a direct caller of
\* get_session_csrf).
CsrfInFlight == {q \in axiosInflight : q.url = CsrfUrl}
C3_SingleFlightCsrf == Cardinality(CsrfInFlight) <= 1

\* C4: every bridge call whose response was classified as a challenge is
\* eventually settled (resolved after the challenge completes, or rejected by a
\* timeout), whatever the user does with the verification surface.
C4_ChallengedCallSettles ==
    \A r \in ReqIds : (challenged[r] > 0) ~> (SettleCount(r) > 0)

\* C9: once the bridge is ready, every queued request is eventually injected
\* into the WebView (or settled): the queue does not stall.
C9_QueuedEventuallyDispatched ==
    \A r \in ReqIds :
        (isReady /\ InQueue(r)) ~> (Count(r, dispatchLog) > 0 \/ SettleCount(r) > 0)

\* C5 (as stated): a request blocked by a challenge is re-sent at most once, and
\* a retry that is answered with a challenge again is settled as failed and is
\* not kept for another retry.
C5_RetryAtMostOnce ==
    \A r \in ReqIds :
        /\ Count(r, dispatchLog) <= 2
        /\ challenged[r] >= 2 => (SettleCount(r) > 0 /\ currentRequest # r)

\* C5 (amended): a request that was already injected is injected again only by
\* the page_loaded handler, as the current request, once per completed
\* verification (the WebView goes from visible to hidden); and a challenge
\* answer never settles the request: it stays current, the WebView is shown
\* again, and nothing bounds the number of such rounds.
C5_RetryPerCompletedChallenge ==
    [][\A r \in ReqIds :
         /\ (Count(r, dispatchLog') > Count(r, dispatchLog) /\ Count(r, dispatchLog) >= 1)
               => /\ Count(r, dispatchLog') = Count(r, dispatchLog) + 1
                  /\ isVisible /\ ~isVisible'
                  /\ currentRequest = r /\ currentRequest' = r
         /\ challenged'[r] > challenged[r]
               => /\ isVisible'
                  /\ currentRequest' = r
                  /\ settleLog' = settleLog]_vars

\* C5 witness: a request answered with a challenge twice and injected three times
C5_Witness ==
    \E r \in ReqIds : challenged[r] >= 2 /\ Count(r, dispatchLog) >= 3 /\ currentRequest = r

NewAxios == axiosInflight' \ axiosInflight

\* C8 (as stated): the first call sent through the primary transport while the
\* token is null (dropped on a bad-CSRF answer) starts exactly one refresh.
C8_NextCallStartsOneRefresh ==
    [][(csrfToken = TokNull /\ \E q \in NewAxios : q.by = "exec")
          => refreshStarts' = refreshStarts + 1]_vars

\* C8 (amended): a bad-CSRF answer leaves the held token null; no request sent
\* afterwards carries null or a dropped token; the next call starts one refresh
\* exactly when it is not the token fetch itself, no interceptor-started refresh
\* is running and more than 1000 ms have passed since the last one, and none
\* otherwise; each refresh is one /session/csrf request, which starts no other.
C8_BadCsrfDropsTokenOneThrottledRefresh ==
    [][/\ badCsrfSeen' > badCsrfSeen => csrfToken' = TokNull
       /\ \A q \in NewAxios :
             /\ q.hdr # TokNull
             /\ q.hdr \notin discarded'
             /\ q.hdr # TokUndefined => q.hdr = csrfToken
       /\ refreshStarts' - refreshStarts =
             IF /\ csrfToken = TokNull
                /\ \E q \in NewAxios : q.url # CsrfUrl /\ q.by # "interceptor"
                /\ ~isGettingCsrf
                /\ now - lastCsrfAttempt > 1000
             THEN 1 ELSE 0
       /\ Cardinality({q \in NewAxios : q.by = "interceptor"})
             = refreshStarts' - refreshStarts
       /\ \A q \in NewAxios : q.by = "interceptor" => q.url = CsrfUrl]_vars

\* C8 witness: after a bad-CSRF answer the next call went out without a token
\* and started the refresh, whose /session/csrf request is in flight
C8_Witness ==
    /\ badCsrfSeen >= 1
    /\ refreshStarts >= 1
    /\ csrfToken = TokUndefined
    /\ \E q \in axiosInflight : q.by = "interceptor" /\ q.url = CsrfUrl
    /\ \E q \in axiosInflight : q.by = "exec" /\ q.hdr = TokUndefined

\* C6 (as stated): no _exec call fails towards its caller with the
\* challenge-detected error.
C6_NoChallengeErrorToCaller ==
    \A c \in Calls : callOutcome[c] # "CloudflareChallenge"

\* C6 (amended): a call fails with the challenge-detected error exactly when it
\* was served by the primary transport and the answer was classified as a
\* challenge, after the interceptor has made the verification WebView visible;
\* a challenge answer on the bridge settles no call.
C6_ChallengeErrorOnlyFromPrimary ==
    [][/\ \A c \in Calls :
             (callOutcome[c] = "none" /\ callOutcome'[c] = "CloudflareChallenge")
                => callPc[c] = "axios" /\ isVisible'
       /\ challenged' # challenged => (callOutcome' = callOutcome /\ isVisible')
       /\ (axiosInflight' # axiosInflight /\ ~isVisible /\ isVisible'
              /\ challenged' = challenged)
            => \E c \in Calls : /\ callPc[c] = "axios"
                                /\ callOutcome'[c] = "CloudflareChallenge"]_vars

\* C6 witness: a call that its caller saw fail with the challenge-detected error
C6_Witness ==
    \E c \in Calls :
        callPc[c] = "done" /\ callOutcome[c] = "CloudflareChallenge" /\ isVisible

\* C7: a challenge detection while a challenge is already pending changes
\* neither the pending flag nor the remembered html, url and completion callback.
C7_SecondDetectionIsNoOp ==
    [][(isChallengePending /\ shows' = shows + 1)
          => /\ isChallengePending'
             /\ UNCHANGED <<challengeHtml, challengeUrl, onChallengeComplete>>]_vars

\* C11: the bridge is ready, and a request has been dispatched to the WebView,
\* only after a load of a non-challenge page has completed.
C11_ReadyOnlyAfterSiteLoad ==
    (isReady \/ dispatchLog # <<>>) => siteLoaded

\* C13: the jar that is current holds no cookie set for another account,
\* except challenge-clearance cookies matched by the whitelist.
C13_CurrentJarNotMixed ==
    boxes[currentBox] # NoJar =>
        \A c \in boxes[currentBox] : c.value = currentBox \/ IsCfRelated(c.key)

\* the clearance cookies of the verification WebView are in the current jar
ClearanceMerged ==
    \A c \in webViewCookies :
        /\ boxes[currentBox] # NoJar
        /\ Cookie(c.name, c.value, LinuxDoDomain, RootPath) \in boxes[currentBox]

\* C12: when a pending challenge completes (completeChallenge runs, which
\* invokes the retry of the blocked request), every clearance cookie set
\* during the verification is already merged into the current jar.
C12_ClearanceMergedOnCompletion ==
    [][(isChallengePending /\ ~hasCompleted /\ hasCompleted')
          => (ClearanceMerged /\ ClearanceMerged')]_vars

\* C14: a response with a status outside 2xx/302 is reported as a challenge
\* iff the status is 403 or 503 and the body is a string holding a challenge
\* marker; every other one is an HTTPError carrying the status; a failure
\* without a response is a network error.
C14_PrimaryClassification ==
    respError # NoError =>
        /\ (respReceived /\ ~validateStatus(respStatus)) =>
              IF /\ respStatus \in {403, 503}
                 /\ respBody \in Markers
              THEN respError.kind = "CloudflareChallenge"
              ELSE respError = [kind |-> "HTTPError", status |-> respStatus]
        /\ ~respReceived => respError.kind = "NetworkError"

\* C14 witness: a 503 string answer with a marker was classified as a
\* challenge
C14_Witness ==
    /\ respStatus = 503
    /\ respBody = "_cf_chl_opt"
    /\ respError.kind = "CloudflareChallenge"

\* the keys an operation declares: its parameters and its body properties
DeclaredKeys(name) ==
    {q.name : q \in byOperationId[name].parameters}
        \cup byOperationId[name].bodyProperties
RequiredKeys(name) ==
    {q.name : q \in {t \in byOperationId[name].parameters : t.required}}
        \cup byOperationId[name].bodyRequired

\* C15: a call naming an unknown operation, or giving a key the operation
\* does not declare, throws before a request is built; no undeclared key is
\* part of a request.
C15_UnknownParameterFailsClosed ==
    execBuilt # NotBuilt =>
        /\ execName \notin OperationNames => execBuilt.outcome = "error"
        /\ (execName \in OperationNames
               /\ DOMAIN execParams \ DeclaredKeys(execName) # {})
              => execBuilt.outcome = "error"
        /\ execBuilt.outcome = "request" =>
              (execBuilt.header \cup execBuilt.query \cup execBuilt.body)
                  \subseteq DeclaredKeys(execName)

\* C15 witness: an undeclared key next to a declared one made the call throw
C15_Witness ==
    /\ execName = "getTopic"
    /\ DOMAIN execParams = {"id", "bogus"}
    /\ execBuilt = Thrown("Unknown parameter(s)")

\* C16: a call that omits a required parameter throws and builds no request.
C16_MissingRequiredFails ==
    (execBuilt # NotBuilt /\ execName \in OperationNames
        /\ \E n \in RequiredKeys(execName) : ~Defined(execParams, n))
      => execBuilt.outcome = "error"

\* the answers a handler step passed to resolve(): entries it added to settleLog
ResolvedNow(r) ==
    {settleLog'[i] : i \in {j \in (Len(settleLog) + 1)..Len(settleLog') :
                                settleLog'[j].id = r /\ settleLog'[j].how = "resolve"}}

\* C17: when the transport serving a call answers with a non-success status
\* that is not a challenge, the call ends there with an HTTP error; no other
\* attempt replaces it.
C17_HttpErrorPropagates ==
    [][\A c \in Calls :
          /\ (callPc[c] = "bridge" /\ \E e \in ResolvedNow(callReq[c]) : ~e.ok)
                => (callPc'[c] = "done" /\ callOutcome'[c] = "HTTPError")
          /\ (callPc[c] = "axios" /\ callOutcome'[c] = "HTTPError")
                => callPc'[c] = "done"]_vars

\* C18: once a client has handled a response carrying Set-Cookie, whatever
\* the status, the cookie is in the client's jar and the cookie-changed
\* listener has run (the current box holds the client's jar).
C18_SetCookieAlwaysStored ==
    [][(handled' # handled) =>
          /\ handled'.cookie \in clientJar'[handled'.client]
          /\ boxes'[currentBox'] = clientJar'[handled'.client]]_vars

(* C19: a request sent through axios while no token has been received      *)
(* carries no X-CSRF-Token; once a response carrying a csrf field has been  *)
(* handled, every request sent later carries the most recently received     *)
(* token, until the server has answered bad-CSRF to a request that carried  *)
(* that token.                                                              *)
C19_HeaderIsLastReceivedToken ==
    [][\A q \in NewAxios :
          /\ ~IsToken(lastCsrf) => q.hdr = TokUndefined
          /\ IsToken(lastCsrf) /\ lastCsrf \notin rejected
                => q.hdr = lastCsrf]_vars

(* C19 as the code has it: the token is dropped by any bad-CSRF answer,     *)
(* whatever token the rejected request carried; until then every request    *)
(* carries the most recently received token.                                *)
C19_HeaderUntilAnyBadCsrf ==
    [][\A q \in NewAxios :
          q.hdr = IF IsToken(lastCsrf) /\ ~badSince
                  THEN lastCsrf ELSE TokUndefined]_vars

\* a request in flight carries the received token, another went out bare
C19_Witness ==
    /\ IsToken(lastCsrf)
    /\ ~badSince
    /\ \E q \in axiosInflight : q.hdr = lastCsrf
    /\ \E q \in axiosInflight : q.hdr = TokUndefined /\ q.id < lastCsrf[2]

\* the received token was dropped although no request carrying it was rejected
C19_DroppedUnrejected ==
    /\ IsToken(lastCsrf)
    /\ badSince
    /\ lastCsrf \notin rejected
    /\ \E q \in axiosInflight : q.hdr = TokUndefined /\ q.id > lastCsrf[2]


\* the cookies of a jar that belong to the client's origin
ForOrigin(jar) == {c \in jar : c.domain = LinuxDoDomain}

(* C20: after loadCookies the client's jar holds exactly the cookies of    *)
(* the serialized jar for the client's origin, each with its key, domain,   *)
(* path and value, except _forum_session, which is never in the jar.        *)
C20_LoadKeepsOriginCookies ==
    loadedJar # NoJar =>
        /\ loadedJar = {c \in ForOrigin(loadInput) : c.key # NameForumSession}
        /\ \A c \in loadedJar : c.key # NameForumSession


(* C21: for every status and body, the response object posted by the       *)
(* injected script is marked isCloudflareChallenge exactly when the         *)
(* response error interceptor takes the same status and body for a          *)
(* challenge.                                                               *)
C21_TransportsClassifyAlike ==
    respBridge # NoPageResponse /\ respError # NoError =>
        (respBridge.isCloudflareChallenge
            <=> respError.kind = "CloudflareChallenge")


\* the path parameters a built request carries in its url
PathKeys(name, built) ==
    LET template == byOperationId[name].path
    IN  {template[i].text : i \in {j \in 1..Len(template) :
                                     template[j].var /\ ~built.url[j].var}}

(* C22: a call that gives only parameters its operation declares, each     *)
(* with a value, is accepted, and every one of them is in exactly one of    *)
(* header, query, path and body; this includes operations that declare a    *)
(* request body and no parameters.                                          *)
C22_DeclaredParametersPlacedOnce ==
    (/\ execBuilt # NotBuilt
     /\ execName \in OperationNames
     /\ DOMAIN execParams \subseteq DeclaredKeys(execName)
     /\ \A n \in DOMAIN execParams : Defined(execParams, n))
      => /\ execBuilt.outcome = "request"
         /\ LET buckets == <<execBuilt.header, execBuilt.query,
                              PathKeys(execName, execBuilt), execBuilt.body>>
            IN  /\ UNION {buckets[i] : i \in 1..4} = DOMAIN execParams
                /\ \A i \in 1..4 : \A j \in 1..4 :
                      i # j => buckets[i] \cap buckets[j] = {}


(* C23: whenever a request other than the token fetch is sent through      *)
(* axios while no token is held, more than the throttle window has passed   *)
(* since the last refresh and no refresh is running, the interceptor starts *)
(* a refresh, and the request itself goes out at once without a token.      *)
C23_NoTokenStartsRefresh ==
    [][\A q \in NewAxios :
          (/\ q.url # CsrfUrl
           /\ ~IsToken(csrfToken)
           /\ ~isGettingCsrf
           /\ now - lastCsrfAttempt > CsrfThrottleMs)
            => /\ refreshStarts' = refreshStarts + 1
               /\ q.hdr = TokUndefined
               /\ \E r \in NewAxios : r.url = CsrfUrl /\ r.by = "interceptor"]_vars


\* the requests a handler step handed to the WebView
NewDispatches == SubSeq(dispatchLog', Len(dispatchLog) + 1, Len(dispatchLog'))

\* a handler step took an answer to the current request that is no challenge
CurrentAnswered ==
    /\ currentRequest # NoRequest
    /\ unmounts' = unmounts
    /\ inflight'[currentRequest] < inflight[currentRequest]
    /\ challenged' = challenged

(* C24: when an api_response that is no challenge, or an api_error, for the *)
(* current request is handled, its promise is settled once, and afterwards  *)
(* currentRequest is the former head of requestQueue, handed to the         *)
(* WebView, if the queue was not empty and the bridge is ready, and null    *)
(* otherwise; as long as a request stays current (blocked on a challenge    *)
(* included) no other request is handed to the WebView.                     *)
C24_AnswerSettlesAndAdvances ==
    [][/\ CurrentAnswered =>
            /\ Len(settleLog') = Len(settleLog) + 1
            /\ settleLog'[Len(settleLog')].id = currentRequest
            /\ IF Len(requestQueue) > 0 /\ isReady
               THEN /\ currentRequest' = Head(requestQueue)
                    /\ requestQueue' = Tail(requestQueue)
                    /\ NewDispatches = <<Head(requestQueue)>>
               ELSE /\ currentRequest' = NoRequest
                    /\ requestQueue' = requestQueue
                    /\ NewDispatches = <<>>
       /\ (currentRequest # NoRequest /\ currentRequest' = currentRequest) =>
            \A i \in 1..Len(NewDispatches) : NewDispatches[i] = currentRequest]_vars

\* a request was answered and the head of the queue took its place
C24_Witness ==
    /\ currentRequest # NoRequest
    /\ Len(dispatchLog) >= 2
    /\ dispatchLog[Len(dispatchLog)] = currentRequest
    /\ \E i \in 1..Len(settleLog) :
          /\ settleLog[i].how = "resolve"
          /\ settleLog[i].id = dispatchLog[Len(dispatchLog) - 1]
          /\ settleLog[i].id # currentRequest
    /\ challenged[currentRequest] = 0
    /\ inflight[currentRequest] = 1


(* C25: a request is handed to the WebView again only after a challenge    *)
(* answer to that same request (never more fetches than its challenge       *)
(* answers plus one), and an _exec call whose bridge request the server     *)
(* answered does not send the request again through axios.                  *)
C25_ResentOnlyAfterOwnChallenge ==
    [][/\ \A r \in ReqIds :
             Count(r, dispatchLog') <= challenged'[r] + 1
       /\ \A c \in Calls :
             (callPc[c] = "bridge" /\ ResolvedNow(callReq[c]) # {})
                => callPc'[c] # "axios"]_vars


\* what a message that answers no current request must leave alone
StoreUntouched ==
    /\ currentRequest' = currentRequest
    /\ requestQueue' = requestQueue
    /\ isReady' = isReady
    /\ isVisible' = isVisible
    /\ settleLog' = settleLog

(* C26: a message that is no JSON, of an unknown type, or an api_response  *)
(* or api_error whose requestId is not the current request's (a late       *)
(* answer to an earlier request included) leaves currentRequest,           *)
(* requestQueue, isReady and isVisible unchanged and settles no promise.   *)
C26_StrayMessageChangesNothing ==
    [][/\ strayMessages' > strayMessages => StoreUntouched
       /\ \A r \in ReqIds :
             (r # currentRequest /\ inflight'[r] < inflight[r])
                => StoreUntouched]_vars

\* a request is current and waits while a stray message has been handled
\* and an earlier request's late answer has come in
C26_Witness ==
    /\ strayMessages > 0
    /\ currentRequest # NoRequest
    /\ inflight[currentRequest] > 0
    /\ \A i \in 1..Len(settleLog) : settleLog[i].id # currentRequest
    /\ \E r \in ReqIds :
          /\ r < currentRequest
          /\ Count(r, dispatchLog) > inflight[r] + SettleCount(r) + challenged[r]


\* the refreshes started by the request interceptor that are outstanding
InterceptorRefreshes(inflightSet) ==
    {q \in inflightSet : q.by = "interceptor" /\ q.url = CsrfUrl}

(* C27: isGettingCsrf is set only while a refresh started by the request   *)
(* interceptor is outstanding, and the step in which such a refresh ends,   *)
(* with an answer of any status or with none, leaves the flag reset.        *)
C27_FlagFollowsRefresh ==
    [][/\ isGettingCsrf' => InterceptorRefreshes(axiosInflight') # {}
       /\ (InterceptorRefreshes(axiosInflight)
              \ InterceptorRefreshes(axiosInflight') # {})
            => ~isGettingCsrf']_vars

\* a refresh was started and ended without ever bringing a token
C27_Witness ==
    /\ refreshStarts >= 1
    /\ ~IsToken(lastCsrf)
    /\ InterceptorRefreshes(axiosInflight) = {}
    /\ ~isGettingCsrf


(* C28: at most one initialisation of the client store is in progress; a   *)
(* client is installed in the store only by the initialisation started      *)
(* last; and the stored client is never one whose initialisation started    *)
(* before the last logout.                                                  *)
C28_OneInitLatestClient ==
    [][/\ Cardinality(initAwaits') <= 1
       /\ (storeClient' # storeClient /\ storeClient' # 0)
             => storeClient' = clientCount'
       /\ storeClient' # 0 => storeClient' > logoutClients']_vars


\* the ids of a history, in order
Ids(h) == [i \in 1..Len(h) |-> h[i].id]

(* C29: the history never holds more than ten items nor two items with the *)
(* same id, and right after an addToHistory that built an item, that item   *)
(* is first and the items behind it are the other items of the previous     *)
(* history, in their previous order (cut after the tenth place).            *)
C29_HistoryBoundedDistinctOrdered ==
    [][/\ Len(history') <= HistoryLimit
       /\ \A i, j \in 1..Len(history') :
             history'[i].id = history'[j].id => i = j
       /\ (historyOp'.op = "addToHistory"
              /\ historyOp'.item.id # InvalidParams
              /\ historyOps' > historyOps)
            => /\ history'[1] = historyOp'.item
               /\ LET rest == WithoutId(history, historyOp'.item.id)
                  IN  Tail(history')
                        = SubSeq(rest, 1,
                                 IF Len(rest) < HistoryLimit
                                 THEN Len(rest) ELSE HistoryLimit - 1)]_vars

\* an item listed in the middle of a full history was added again: it is
\* first, once, and ten items are listed
C29_Witness ==
    /\ historyOp.op = "addToHistory"
    /\ Len(history) = HistoryLimit
    /\ history[1] = historyOp.item
    /\ history[1].timestamp > 0
    /\ \E i \in 2..Len(FullHistory) - 1 : FullHistory[i].id = history[1].id
    /\ \A i \in 2..Len(history) : history[i].timestamp = 0


\* what get(name) is to return now: nothing if name was never set, was
\* deleted, or its lifetime has elapsed, and else what was last stored
Expected(name) ==
    IF cacheStored[name] = NotStored THEN CacheNull
    ELSE IF cacheStored[name].at + CacheLifetime < cacheNow THEN CacheNull
    ELSE CacheValue(cacheStored[name].content, cacheStored[name].ident)

(* C30: get(name) returns null when name was never set, was deleted by     *)
(* set(name, null) or its entry's lifetime has elapsed, and the value last  *)
(* stored under name otherwise; a set whose value carries the identifier of *)
(* the live entry leaves the entry and its expiry time as they were.        *)
C30_CacheGetSet ==
    [][/\ \A n \in CacheNames : cacheGet(caches', n, cacheNow') = Expected(n)'
       /\ cacheGot' # cacheGot => cacheGot'.result = Expected(cacheGot'.name)
       /\ (/\ cacheSets' > cacheSets
           /\ cacheOp'.value # CacheNull
           /\ cacheGet(caches, cacheOp'.name, cacheNow) # CacheNull
           /\ cacheGet(caches, cacheOp'.name, cacheNow).ident = cacheOp'.value.ident)
            => caches' = caches]_vars

\* get answered null for an entry whose lifetime had elapsed, and another
\* entry was kept by a set carrying its identifier with other content
C30_Witness ==
    /\ cacheGot.result = CacheNull
    /\ cacheGot.name \in CacheNames
    /\ caches[cacheGot.name] # NoItem
    /\ caches[cacheGot.name].expired < cacheNow
    /\ cacheOp.name \in CacheNames
    /\ cacheOp.value # CacheNull
    /\ cacheOp.value.ident = caches[cacheOp.name].value.ident
    /\ cacheOp.value.content # caches[cacheOp.name].value.content

====
